---- MODULE Spec2Model ----
(***************************************************************************)
(* py-ulid: the ULID codec (encode, encode_timestamp, decode), the plain   *)
(* generator ULID.generate and the monotonic generator Monotonic.generate  *)
(* of src/ulid/ulid.py.                                                    *)
(*                                                                         *)
(* Representation.  Python integers are unbounded and the values handled   *)
(* here reach 2^130, so a non-negative integer is its binary numeral: a    *)
(* sequence of bits, most significant first, without leading zeros (the    *)
(* empty sequence is 0).  A Python bit string ('0'/'1' characters, as      *)
(* produced by format(i, "0Nb")) is a sequence of bits that may carry      *)
(* leading zeros.  A Python str is a sequence of one-character strings.    *)
(***************************************************************************)
EXTENDS Integers, Sequences, FiniteSets, TLC

VARIABLES
    call,            \* codec: the last codec call [op, arg, res]
    prev,            \* codec: the codec call before it
    prev_utc_time,   \* Monotonic.__prev_utc_time, a datetime [s, us]
    prev_rand_bits,  \* Monotonic.__prev_rand_bits, a bit string or None
    now,             \* the wall clock read by datetime.now(timezone.utc)
    last,            \* generators: what the last generate() call did
    emitted,         \* generators: the strings returned so far, in order
    seed_time,       \* ULID.seed_time of the plain generator
    pc,              \* concurrent callers: position of each thread
    loc,             \* concurrent callers: locals of each thread
    serialized       \* concurrent callers: do the callers hold a lock

vars == <<call, prev, prev_utc_time, prev_rand_bits, now, last, emitted,
          seed_time, pc, loc, serialized>>

codecVars == <<call, prev>>
monoVars == <<prev_utc_time, prev_rand_bits, now>>
genVars == <<last, emitted>>
plainVars == <<seed_time>>
concVars == <<pc, loc, serialized>>

-----------------------------------------------------------------------------
(* Arithmetic on binary numerals                                           *)

Min(a, b) == IF a < b THEN a ELSE b

Zeros(n) == [i \in 1..n |-> 0]

Ones(n) == [i \in 1..n |-> 1]

\* The numeral of a bit sequence: leading zeros dropped.
Strip(b) ==
    IF \A i \in 1..Len(b) : b[i] = 0 THEN <<>>
    ELSE LET k == CHOOSE i \in 1..Len(b) :
                    b[i] = 1 /\ \A j \in 1..(i - 1) : b[j] = 0
         IN  SubSeq(b, k, Len(b))

\* a < b on numerals.
NatLess(a, b) ==
    \/ Len(a) < Len(b)
    \/ /\ Len(a) = Len(b)
       /\ \E i \in 1..Len(a) :
            /\ a[i] < b[i]
            /\ \A j \in 1..(i - 1) : a[j] = b[j]

\* a << k
Shl(a, k) == IF a = <<>> THEN <<>> ELSE a \o Zeros(k)

\* a + 1
Inc(a) ==
    IF \A i \in 1..Len(a) : a[i] = 1 THEN <<1>> \o Zeros(Len(a))
    ELSE LET k == CHOOSE i \in 1..Len(a) :
                    a[i] = 0 /\ \A j \in (i + 1)..Len(a) : a[j] = 1
         IN  [i \in 1..Len(a) |-> IF i < k THEN a[i] ELSE IF i = k THEN 1 ELSE 0]

\* The numeral of a natural number below 2^31.
NatToBits(n) == Strip([i \in 1..31 |-> (n \div (2 ^ (31 - i))) % 2])

\* The value of a short bit sequence (at most 15 bits).
RECURSIVE BitsToNat(_)
BitsToNat(b) == IF b = <<>> THEN 0
                ELSE 2 * BitsToNat(SubSeq(b, 1, Len(b) - 1)) + b[Len(b)]

\* Longer products go through limbs of 15 bits, least significant
\* limb first.
ToLimbs(b) ==
    LET n == (Len(b) + 14) \div 15
        padded == Zeros(15 * n - Len(b)) \o b
    IN  [k \in 1..n |-> BitsToNat(SubSeq(padded, 15 * (n - k) + 1, 15 * (n - k) + 15))]

FromLimbs(l) ==
    Strip([i \in 1..(15 * Len(l)) |->
            (l[Len(l) - ((i - 1) \div 15)] \div (2 ^ (14 - ((i - 1) % 15)))) % 2])

\* x * m + c for a small factor m
RECURSIVE MulLimbs(_, _, _)
MulLimbs(x, m, c) ==
    IF x = <<>>
    THEN IF c = 0 THEN <<>> ELSE <<c % 32768>> \o MulLimbs(x, m, c \div 32768)
    ELSE LET s == Head(x) * m + c
         IN  <<s % 32768>> \o MulLimbs(Tail(x), m, s \div 32768)

\* a * m + c, for m up to 10000 and c below 2^15
MulAdd(a, m, c) == FromLimbs(MulLimbs(ToLimbs(a), m, c))

\* The numeral written in decimal digits d, most significant first, taken
\* four digits at a time.
RECURSIVE FromDecimal(_)
FromDecimal(d) ==
    IF Len(d) = 0 THEN <<>>
    ELSE IF Len(d) = 1 THEN NatToBits(d[1])
    ELSE IF Len(d) = 2 THEN NatToBits(10 * d[1] + d[2])
    ELSE IF Len(d) = 3 THEN NatToBits(100 * d[1] + 10 * d[2] + d[3])
    ELSE LET n == Len(d)
         IN  MulAdd(FromDecimal(SubSeq(d, 1, n - 4)), 10000,
                    1000 * d[n - 3] + 100 * d[n - 2] + 10 * d[n - 1] + d[n])

-----------------------------------------------------------------------------
(* Python built-ins used by the module                                     *)

\* bin(x)[2:]
BinDigits(x) == IF x = <<>> THEN <<0>> ELSE x

\* format(x, f"0{width}b") for x >= 0: zero-padded to at least width digits,
\* never truncated.
FormatBin(x, width) ==
    LET d == BinDigits(x)
    IN  IF Len(d) >= width THEN d ELSE Zeros(width - Len(d)) \o d

\* Character codes (ord) of the characters that occur in the model.
CodePoints ==
    <<"-", "0", "1", "2", "3", "4", "5", "6", "7", "8", "9",
      "A", "B", "C", "D", "E", "F", "G", "H", "I", "J", "K", "L", "M",
      "N", "O", "P", "Q", "R", "S", "T", "U", "V", "W", "X", "Y", "Z",
      "a", "z">>

Ord(c) == CHOOSE i \in 1..Len(CodePoints) : CodePoints[i] = c

\* s < t for Python str: the first differing character decides, a proper
\* prefix is smaller.
StrLess(s, t) ==
    \/ /\ Len(s) < Len(t)
       /\ \A j \in 1..Len(s) : s[j] = t[j]
    \/ \E i \in 1..Min(Len(s), Len(t)) :
            /\ Ord(s[i]) < Ord(t[i])
            /\ \A j \in 1..(i - 1) : s[j] = t[j]

-----------------------------------------------------------------------------
(* class ULID: constants                                                   *)

_time == 50

_randomness == 80

crockford_base ==
    <<"0", "1", "2", "3", "4", "5", "6", "7", "8", "9",
      "A", "B", "C", "D", "E", "F", "G", "H", "J", "K", "M", "N",
      "P", "Q", "R", "S", "T", "V", "W", "X", "Y", "Z">>

\* 281474976710655 = 2^48 - 1
MAX_EPOCH_TIME == FromDecimal(<<2, 8, 1, 4, 7, 4, 9, 7, 6, 7, 1, 0, 6, 5, 5>>)

\* str.find of one character in crockford_base: its 0-based index, or -1.
find(c) ==
    IF \E i \in 1..Len(crockford_base) : crockford_base[i] = c
    THEN (CHOOSE i \in 1..Len(crockford_base) : crockford_base[i] = c) - 1
    ELSE -1

\* None, among bit strings and numerals.
None == <<-1>>

\* Results of a call: a returned value or a raised exception.
Ok(v) == [ok |-> TRUE, err |-> "", val |-> v]

Raise(e) == [ok |-> FALSE, err |-> e, val |-> <<>>]

\* Arguments: a Python int (sign and magnitude), a str, or a float.
PyInt(m) == [type |-> "int", neg |-> FALSE, mag |-> m, chars |-> <<>>]

PyNegInt(m) == [type |-> "int", neg |-> TRUE, mag |-> m, chars |-> <<>>]

PyStr(s) == [type |-> "str", neg |-> FALSE, mag |-> <<>>, chars |-> s]

PyFloat == [type |-> "float", neg |-> FALSE, mag |-> <<>>, chars |-> <<>>]

-----------------------------------------------------------------------------
(* class ULID: the codec                                                   *)

\* One character per group of 5 bits, starting at bit 0; the last group is
\* shorter when the length is no multiple of 5.
_from_bits_to_ulidstr(ulid_bits) ==
    [k \in 1..((Len(ulid_bits) + 4) \div 5) |->
        crockford_base[
            BitsToNat(SubSeq(ulid_bits, 5 * (k - 1) + 1,
                             Min(5 * k, Len(ulid_bits)))) + 1]]

\* encode without the zero fill: format(i, "b").
encode_unpadded(i) ==
    IF i.type # "int" THEN Raise("TypeError")
    ELSE IF i.neg THEN Raise("ValueError")
    ELSE IF ~NatLess(i.mag, Shl(<<1>>, 128)) THEN Raise("ValueError")
    ELSE Ok(_from_bits_to_ulidstr(BinDigits(i.mag)))

\* encode with the upper bound off by one: i > (1 << 128).
encode_off_by_one(i) ==
    IF i.type # "int" THEN Raise("TypeError")
    ELSE IF i.neg THEN Raise("ValueError")
    ELSE IF NatLess(Shl(<<1>>, 128), i.mag) THEN Raise("ValueError")
    ELSE Ok(_from_bits_to_ulidstr(FormatBin(i.mag, _time + _randomness)))

encode(i) ==
    IF i.type # "int" THEN Raise("TypeError")
    ELSE IF i.neg THEN Raise("ValueError")
    ELSE IF ~NatLess(i.mag, Shl(<<1>>, 128)) THEN Raise("ValueError")
    ELSE Ok(_from_bits_to_ulidstr(FormatBin(i.mag, _time + _randomness)))

\* encode_timestamp formatting to 48 bits instead of _time.
encode_timestamp_w48(t) ==
    IF t.type # "int" THEN Raise("TypeError")
    ELSE IF t.neg THEN Raise("ValueError")
    ELSE IF NatLess(MAX_EPOCH_TIME, t.mag) THEN Raise("ValueError")
    ELSE Ok(_from_bits_to_ulidstr(FormatBin(t.mag, 48)))

encode_timestamp(t) ==
    IF t.type # "int" THEN Raise("TypeError")
    ELSE IF t.neg THEN Raise("ValueError")
    ELSE IF NatLess(MAX_EPOCH_TIME, t.mag) THEN Raise("ValueError")
    ELSE Ok(_from_bits_to_ulidstr(FormatBin(t.mag, _time)))

\* format(pos, "05b") for the positions 0..31 of the alphabet.
FiveBits == [pos \in 0..31 |-> FormatBin(NatToBits(pos), 5)]

\* The loop of decode: the 5-bit strings of the characters' positions,
\* concatenated.
CharBits(s) ==
    LET groups == [k \in 1..Len(s) |-> FiveBits[find(s[k])]]
    IN  [i \in 1..(5 * Len(s)) |-> groups[((i - 1) \div 5) + 1][((i - 1) % 5) + 1]]

\* decode slicing the timestamp at 48 bits instead of _time.
decode_w48(s) ==
    IF s.type # "str" THEN Raise("TypeError")
    ELSE IF Len(s.chars) > 26 THEN Raise("ValueError")
    ELSE IF \E k \in 1..Len(s.chars) : find(s.chars[k]) = -1
         THEN Raise("ValueError")
    ELSE LET ulid_bits == CharBits(s.chars)
             time_part == SubSeq(ulid_bits, 1, Min(48, Len(ulid_bits)))
             rand_part == SubSeq(ulid_bits, 48 + 1, Len(ulid_bits))
         IN  IF time_part = <<>> THEN Raise("ValueError")
             ELSE IF NatLess(MAX_EPOCH_TIME, Strip(time_part))
                  THEN Raise("ValueError")
             ELSE IF rand_part = <<>> THEN Raise("ValueError")
             ELSE Ok(<<Strip(time_part), Strip(rand_part)>>)

\* decode without the check against MAX_EPOCH_TIME.
decode_unchecked(s) ==
    IF s.type # "str" THEN Raise("TypeError")
    ELSE IF Len(s.chars) > 26 THEN Raise("ValueError")
    ELSE IF \E k \in 1..Len(s.chars) : find(s.chars[k]) = -1
         THEN Raise("ValueError")
    ELSE LET ulid_bits == CharBits(s.chars)
             time_part == SubSeq(ulid_bits, 1, Min(_time, Len(ulid_bits)))
             rand_part == SubSeq(ulid_bits, _time + 1, Len(ulid_bits))
         IN  IF time_part = <<>> THEN Raise("ValueError")
             ELSE IF rand_part = <<>> THEN Raise("ValueError")
             ELSE Ok(<<Strip(time_part), Strip(rand_part)>>)

\* int(b, base=2) raises ValueError on the empty string.
decode(s) ==
    IF s.type # "str" THEN Raise("TypeError")
    ELSE IF Len(s.chars) > 26 THEN Raise("ValueError")
    ELSE IF \E k \in 1..Len(s.chars) : find(s.chars[k]) = -1
         THEN Raise("ValueError")
    ELSE LET ulid_bits == CharBits(s.chars)
             time_part == SubSeq(ulid_bits, 1, Min(_time, Len(ulid_bits)))
             rand_part == SubSeq(ulid_bits, _time + 1, Len(ulid_bits))
         IN  IF time_part = <<>> THEN Raise("ValueError")
             ELSE IF NatLess(MAX_EPOCH_TIME, Strip(time_part))
                  THEN Raise("ValueError")
             ELSE IF rand_part = <<>> THEN Raise("ValueError")
             ELSE Ok(<<Strip(time_part), Strip(rand_part)>>)

-----------------------------------------------------------------------------
(* datetime and timedelta: seconds and microseconds since the epoch        *)

\* t + d, normalised
TimeAdd(t, d) ==
    [s |-> t.s + d.s + ((t.us + d.us) \div 1000000),
     us |-> (t.us + d.us) % 1000000]

\* (curr - prevt).microseconds: the microsecond field of the normalised
\* timedelta, 0..999999, whatever its days and seconds.
microseconds(curr, prevt) == (curr.us - prevt.us) % 1000000

\* int(t.timestamp() * 1000)
timestamp_ms(t) == MulAdd(NatToBits(t.s), 1000, t.us \div 1000)

-----------------------------------------------------------------------------
(* ULID.generate, the plain generator                                      *)

\* Lines 59-62: the time in milliseconds, from the clock or from the seed.
curr_utc_timestamp(seed, curr) ==
    IF seed = None THEN timestamp_ms(curr) ELSE MulAdd(seed, 1000, 0)

\* Lines 64-67, with r the value of secrets.randbits(80).
ulid_generate(seed, curr, r) ==
    _from_bits_to_ulidstr(
        FormatBin(curr_utc_timestamp(seed, curr), _time) \o FormatBin(r, _randomness))

-----------------------------------------------------------------------------
(* Monotonic.generate                                                      *)

\* Lines 233-237: ms_diff <= 1.0
same_millisecond(curr, prevt) == microseconds(curr, prevt) <= 1000

\* next_rand_bits without the increment.
next_rand_bits_same(prev_bits, r) ==
    IF prev_bits = None THEN Ok(FormatBin(r, _randomness))
    ELSE LET prev_rand_num == Strip(prev_bits)
         IN  IF Len(BinDigits(Inc(prev_rand_num))) > _randomness
             THEN Raise("ValueError")
             ELSE Ok(FormatBin(prev_rand_num, _randomness))

\* next_rand_bits wrapping to 0 instead of raising.
next_rand_bits_wraps(prev_bits, r) ==
    IF prev_bits = None THEN Ok(FormatBin(r, _randomness))
    ELSE LET prev_rand_num == Strip(prev_bits)
         IN  IF Len(BinDigits(Inc(prev_rand_num))) > _randomness
             THEN Ok(Zeros(_randomness))
             ELSE Ok(FormatBin(Inc(prev_rand_num), _randomness))

\* next_rand_bits drawing fresh bits whatever the last ones were.
next_rand_bits_fresh(prev_bits, r) == Ok(FormatBin(r, _randomness))

\* Lines 245-253, with r the value of secrets.randbits(80): the random bits
\* of a call in the same millisecond, or the overflow error.
next_rand_bits(prev_bits, r) ==
    IF prev_bits = None THEN Ok(FormatBin(r, _randomness))
    ELSE LET prev_rand_num == Strip(prev_bits)
         IN  IF Len(BinDigits(Inc(prev_rand_num))) > _randomness
             THEN Raise("ValueError")
             ELSE Ok(FormatBin(Inc(prev_rand_num), _randomness))

\* The whole call, from the state (prevt, prev_bits), the clock reading curr
\* and the random draw r: the state it leaves and what it returns.
monotonic_generate(prevt, prev_bits, curr, r) ==
    IF same_millisecond(curr, prevt)
    THEN LET epoch_bits == FormatBin(timestamp_ms(prevt), _time)
             rand_num_bits == next_rand_bits(prev_bits, r)
         IN  IF rand_num_bits.ok
             THEN [path |-> "same", time |-> prevt, rand |-> rand_num_bits.val,
                   res |-> Ok(_from_bits_to_ulidstr(epoch_bits \o rand_num_bits.val))]
             ELSE [path |-> "same", time |-> prevt, rand |-> prev_bits,
                   res |-> rand_num_bits]
    ELSE LET epoch_bits == FormatBin(timestamp_ms(curr), _time)
             rand_num_bits == FormatBin(r, _randomness)
         IN  [path |-> "new", time |-> curr, rand |-> rand_num_bits,
              res |-> Ok(_from_bits_to_ulidstr(epoch_bits \o rand_num_bits))]

-----------------------------------------------------------------------------
(* Inputs of the codec                                                     *)

\* Bit lengths 0..SmallLen, and those within Near of the field boundaries.
SmallLen == 3

Near == 1

BitLens ==
    (0..SmallLen) \cup ((48 - Near)..(48 + Near)) \cup ((80 - Near)..(80 + Near))
        \cup ((128 - Near)..(128 + Near))

\* 1010...
Alternating(n) == [i \in 1..n |-> i % 2]

\* Numerals of n bits: 2^n - 1, 2^(n-1), 2^(n-1) + 1, 1010...
NumeralsOfLen(n) ==
    IF n = 0 THEN {<<>>}
    ELSE {Ones(n), <<1>> \o Zeros(n - 1), Strip(<<1>> \o Zeros(n - 2) \o <<1>>),
          Alternating(n)}

\* 340282366920938463463374607431768167, of test_encode_return_val_length
TestInt ==
    FromDecimal(<<3, 4, 0, 2, 8, 2, 3, 6, 6, 9, 2, 0, 9, 3, 8, 4, 6, 3, 4, 6,
                  3, 3, 7, 4, 6, 0, 7, 4, 3, 1, 7, 6, 8, 1, 6, 7>>)

Numerals == UNION {NumeralsOfLen(n) : n \in BitLens} \cup {TestInt}

IntArgs ==
    {PyInt(m) : m \in Numerals}
        \cup {PyNegInt(<<1>>), PyNegInt(Shl(<<1>>, 128))}
        \cup {PyStr(<<"H", "E", "Z", "Z", "0">>), PyFloat}

\* '01BX5ZZKBKACTAV9WEVGEMMVRY', of the docstring of decode
DocUlid ==
    <<"0", "1", "B", "X", "5", "Z", "Z", "K", "B", "K", "A", "C", "T",
      "A", "V", "9", "W", "E", "V", "G", "E", "M", "M", "V", "R", "Y">>

Repeat(c, n) == [i \in 1..n |-> c]

StrLens == {0, 1, 9, 10, 11, 25, 26, 27}

\* Characters outside the alphabet: the four excluded letters, lower case.
BadChars == {"I", "L", "O", "U", "a", "z", "-"}

StrArgs ==
    {PyStr(<<c>> \o Repeat("Z", 25)) : c \in {crockford_base[k] : k \in 1..32}}
        \cup {PyStr(<<c>> \o Repeat("0", 25)) : c \in {"7", "8", "Z"}}
        \cup {PyStr(SubSeq(<<c>> \o Repeat(f, 26), 1, n)) :
                c \in {"0", "7", "8"}, f \in {"0", "Z"}, n \in StrLens}
        \cup {PyStr([DocUlid EXCEPT ![p] = b]) : p \in {1, 13, 26}, b \in BadChars}
        \cup {PyStr(DocUlid), PyInt(<<1>>)}

-----------------------------------------------------------------------------
(* The codec called on its inputs, the last two calls recorded             *)

NoCall == [op |-> "none", arg |-> PyFloat, res |-> Raise("")]

\* datetime(1970, 1, 1, tzinfo=timezone.utc)
Epoch == [s |-> 0, us |-> 0]

\* The record of a generate() call: its number, the branch it took, its
\* outcome, the clock it read and the generator's state when it began.
NoGen == [n |-> 0, path |-> "none", ok |-> FALSE, err |-> "", val |-> <<>>,
          curr |-> Epoch, time |-> Epoch, rand |-> None]

Threads == {1, 2}

\* The locals of generate(): curr_utc_time, epoch_bits, the value read from
\* __prev_rand_bits, rand_num_bits.
NoLocals == [curr |-> Epoch, epoch |-> <<>>, read |-> None, rand |-> None]

\* The parts of the state a specification does not use stay as constructed.
IdleCodec == call = NoCall /\ prev = NoCall

IdleMono == prev_utc_time = Epoch /\ prev_rand_bits = None /\ now = Epoch

IdleGen == last = NoGen /\ emitted = <<>>

IdlePlain == seed_time = None

IdleConc ==
    /\ pc = [t \in Threads |-> "idle"]
    /\ loc = [t \in Threads |-> NoLocals]
    /\ serialized = TRUE

InitCodec == IdleCodec /\ IdleMono /\ IdleGen /\ IdlePlain /\ IdleConc

\* The codec keeps no state: two calls relate any two of its results, so a
\* run makes two calls.
CallEncode ==
    \E v \in IntArgs :
        /\ prev = NoCall
        /\ call' = [op |-> "encode", arg |-> v, res |-> encode(v)]
        /\ prev' = call
        /\ UNCHANGED <<monoVars, genVars, plainVars, concVars>>

CallEncodeTimestamp ==
    \E t \in IntArgs :
        /\ prev = NoCall
        /\ call' = [op |-> "encode_timestamp", arg |-> t, res |-> encode_timestamp(t)]
        /\ prev' = call
        /\ UNCHANGED <<monoVars, genVars, plainVars, concVars>>

CallDecode ==
    \E s \in StrArgs :
        /\ prev = NoCall
        /\ call' = [op |-> "decode", arg |-> s, res |-> decode(s)]
        /\ prev' = call
        /\ UNCHANGED <<monoVars, genVars, plainVars, concVars>>

\* decode applied to the string the last encode or encode_timestamp returned.
CallDecodeReturned ==
    /\ call.op \in {"encode", "encode_timestamp"}
    /\ call.res.ok
    /\ prev = NoCall
    /\ call' = [op |-> "decode", arg |-> PyStr(call.res.val),
                res |-> decode(PyStr(call.res.val))]
    /\ prev' = call
    /\ UNCHANGED <<monoVars, genVars, plainVars, concVars>>

NextCodec == CallEncode \/ CallEncodeTimestamp \/ CallDecode \/ CallDecodeReturned

SpecCodec == InitCodec /\ [][NextCodec]_vars

-----------------------------------------------------------------------------
(* A Monotonic generator called by one caller, one call after the other    *)

\* Calls made on one generator.
MaxCalls == 3

\* Clock readings at construction: 2017-10-24 01:29:36.371 UTC, and 400
\* microseconds before the next full second.
StartTimes ==
    {[s |-> 1508808576, us |-> 371000], [s |-> 1508808576, us |-> 999600]}

\* Time that passes before a call reads the clock: none, 400 microseconds,
\* 1 ms, 1 ms and 1 microsecond, one second, one day.
Elapsed ==
    {[s |-> 0, us |-> 0], [s |-> 0, us |-> 400], [s |-> 0, us |-> 1000],
     [s |-> 0, us |-> 1001], [s |-> 1, us |-> 0], [s |-> 86400, us |-> 0]}

\* Values of secrets.randbits(80): 0, 2^80 - 2, 2^80 - 1.
RandValues == {<<>>, Ones(79) \o <<0>>, Ones(80)}

Init ==
    /\ prev_utc_time = Epoch
    /\ prev_rand_bits = None
    /\ now \in StartTimes
    /\ IdleGen /\ IdleCodec /\ IdlePlain /\ IdleConc

Generate ==
    \E d \in Elapsed, r \in RandValues :
        /\ last.n < MaxCalls
        /\ now' = TimeAdd(now, d)
        /\ LET g == monotonic_generate(prev_utc_time, prev_rand_bits, now', r)
           IN  /\ prev_utc_time' = g.time
               /\ prev_rand_bits' = g.rand
               /\ last' = [n |-> last.n + 1, path |-> g.path, ok |-> g.res.ok,
                           err |-> g.res.err, val |-> g.res.val, curr |-> now',
                           time |-> prev_utc_time, rand |-> prev_rand_bits]
               /\ emitted' = IF g.res.ok
                             THEN Append(emitted, [val |-> g.res.val, at |-> now'])
                             ELSE emitted
        /\ UNCHANGED <<codecVars, plainVars, concVars>>

Next == Generate

Spec == Init /\ [][Next]_vars

-----------------------------------------------------------------------------
(* A plain ULID generator, constructed with or without a seed              *)

\* Seeds: 0, 1508808576 (a time in seconds), 1125899906842 and
\* 1125899906843 (either side of 2^50 / 1000), 1508808576371 (a time in
\* milliseconds).
Seeds ==
    {<<>>,
     FromDecimal(<<1, 5, 0, 8, 8, 0, 8, 5, 7, 6>>),
     FromDecimal(<<1, 1, 2, 5, 8, 9, 9, 9, 0, 6, 8, 4, 2>>),
     FromDecimal(<<1, 1, 2, 5, 8, 9, 9, 9, 0, 6, 8, 4, 3>>),
     FromDecimal(<<1, 5, 0, 8, 8, 0, 8, 5, 7, 6, 3, 7, 1>>)}

InitPlain ==
    /\ seed_time \in Seeds \cup {None}
    /\ now \in StartTimes
    /\ prev_utc_time = Epoch
    /\ prev_rand_bits = None
    /\ IdleGen /\ IdleCodec /\ IdleConc

PlainGenerate ==
    \E d \in Elapsed, r \in RandValues :
        /\ last.n < MaxCalls
        /\ now' = TimeAdd(now, d)
        /\ LET val == ulid_generate(seed_time, now', r)
           IN  /\ last' = [n |-> last.n + 1, path |-> "plain", ok |-> TRUE,
                           err |-> "", val |-> val, curr |-> now',
                           time |-> prev_utc_time, rand |-> prev_rand_bits]
               /\ emitted' = Append(emitted, [val |-> val, at |-> now'])
        /\ UNCHANGED <<prev_utc_time, prev_rand_bits, seed_time, codecVars, concVars>>

NextPlain == PlainGenerate

SpecPlain == InitPlain /\ [][NextPlain]_vars

-----------------------------------------------------------------------------
(* A Monotonic generator constructed with a seed                           *)

\* Seeds whose time in milliseconds fits the timestamp field: 0 and
\* 1508808576.
MonotonicSeeds ==
    {<<>>, FromDecimal(<<1, 5, 0, 8, 8, 0, 8, 5, 7, 6>>)}

\* Monotonic.__init__(seed) stores the seed; generate() is the method of
\* the unseeded generator, which reads the clock and never seed_time.
InitSeeded ==
    /\ seed_time \in MonotonicSeeds
    /\ prev_utc_time = Epoch
    /\ prev_rand_bits = None
    /\ now \in StartTimes
    /\ IdleGen /\ IdleCodec /\ IdleConc

NextSeeded == Generate

SpecSeeded == InitSeeded /\ [][NextSeeded]_vars

-----------------------------------------------------------------------------
(* One Monotonic generator called from two threads                         *)

\* Calls begun on the shared generator.
MaxConcCalls == 3

\* Time that passes before a call reads the clock.
ConcElapsed == {[s |-> 0, us |-> 0], [s |-> 0, us |-> 400], [s |-> 0, us |-> 2000]}

\* The callers either hold a lock around each call or do not; the generator
\* takes none itself.
InitConc ==
    /\ serialized \in BOOLEAN
    /\ pc = [t \in Threads |-> "idle"]
    /\ loc = [t \in Threads |-> NoLocals]
    /\ prev_utc_time = Epoch
    /\ prev_rand_bits = None
    /\ now = [s |-> 1508808576, us |-> 371000]
    /\ IdleGen /\ IdleCodec /\ IdlePlain

\* The string returned, with the clock reading of the call, its branch and
\* the __prev_rand_bits it read.
Return(t, val, path) ==
    /\ emitted' = Append(emitted, [val |-> val, at |-> loc[t].curr,
                                   path |-> path, read |-> loc[t].read])
    /\ pc' = [pc EXCEPT ![t] = "idle"]

\* Lines 228-237: read the clock and __prev_utc_time, choose the branch.
Begin(t) ==
    \E d \in ConcElapsed :
        /\ pc[t] = "idle"
        /\ last.n < MaxConcCalls
        /\ serialized => \A u \in Threads : pc[u] = "idle"
        /\ now' = TimeAdd(now, d)
        /\ loc' = [loc EXCEPT ![t] = [NoLocals EXCEPT !.curr = now']]
        /\ pc' = [pc EXCEPT ![t] = IF same_millisecond(now', prev_utc_time)
                                   THEN "same_read" ELSE "new_time"]
        /\ last' = [last EXCEPT !.n = last.n + 1]
        /\ UNCHANGED <<prev_utc_time, prev_rand_bits, emitted, serialized,
                       codecVars, plainVars>>

\* Lines 240-253: read __prev_utc_time and __prev_rand_bits, compute the
\* bits of the string or raise.
SameRead(t) ==
    \E r \in RandValues :
        /\ pc[t] = "same_read"
        /\ LET rand_num_bits == next_rand_bits(prev_rand_bits, r)
           IN  IF rand_num_bits.ok
               THEN /\ loc' = [loc EXCEPT
                                ![t].epoch = FormatBin(timestamp_ms(prev_utc_time), _time),
                                ![t].read = prev_rand_bits,
                                ![t].rand = rand_num_bits.val]
                    /\ pc' = [pc EXCEPT ![t] = "same_write"]
                    /\ last' = last
               ELSE /\ loc' = loc
                    /\ pc' = [pc EXCEPT ![t] = "idle"]
                    /\ last' = [last EXCEPT !.err = rand_num_bits.err]
        /\ UNCHANGED <<prev_utc_time, prev_rand_bits, now, emitted, serialized,
                       codecVars, plainVars>>

\* Lines 255-257: store the bits, return the string.
SameWrite(t) ==
    /\ pc[t] = "same_write"
    /\ prev_rand_bits' = loc[t].rand
    /\ Return(t, _from_bits_to_ulidstr(loc[t].epoch \o loc[t].rand), "same")
    /\ UNCHANGED <<prev_utc_time, now, loc, last, serialized, codecVars, plainVars>>

\* Line 260: store the clock reading.
NewTime(t) ==
    /\ pc[t] = "new_time"
    /\ prev_utc_time' = loc[t].curr
    /\ pc' = [pc EXCEPT ![t] = "new_rand"]
    /\ UNCHANGED <<prev_rand_bits, now, loc, last, emitted, serialized,
                   codecVars, plainVars>>

\* Lines 261-268: draw the random bits, store them, return the string.
NewRand(t) ==
    \E r \in RandValues :
        /\ pc[t] = "new_rand"
        /\ prev_rand_bits' = FormatBin(r, _randomness)
        /\ Return(t, _from_bits_to_ulidstr(
                        FormatBin(timestamp_ms(loc[t].curr), _time)
                            \o FormatBin(r, _randomness)), "new")
        /\ UNCHANGED <<prev_utc_time, now, loc, last, serialized, codecVars, plainVars>>

NextConc ==
    \E t \in Threads :
        Begin(t) \/ SameRead(t) \/ SameWrite(t) \/ NewTime(t) \/ NewRand(t)

SpecConc == InitConc /\ [][NextConc]_vars

-----------------------------------------------------------------------------
(* Properties of the codec                                                 *)

Alphabet == {crockford_base[k] : k \in 1..Len(crockford_base)}

\* 0 <= v < 2^128, for an argument v
Representable(v) == v.type = "int" /\ ~v.neg /\ Len(v.mag) <= 128

\* a >> k
Shr(a, k) == IF Len(a) <= k THEN <<>> ELSE SubSeq(a, 1, Len(a) - k)

\* a & (2^k - 1)
LowBits(a, k) ==
    IF Len(a) <= k THEN a ELSE Strip(SubSeq(a, Len(a) - k + 1, Len(a)))

\* C2: for every integer v with 0 <= v < 2^128, encode(v) returns a string
\* and decode of that string returns exactly (v >> 80, v & (2^80 - 1)).
C2_RoundTrip ==
    (prev.op = "encode" /\ Representable(prev.arg)) =>
        /\ prev.res.ok
        /\ (call.op = "decode" /\ call.arg = PyStr(prev.res.val)) =>
                call.res = Ok(<<Shr(prev.arg.mag, 80), LowBits(prev.arg.mag, 80)>>)

\* 2^128 - 1 was encoded and decoded back to (2^48 - 1, 2^80 - 1).
C2_Witness ==
    /\ prev.op = "encode" /\ prev.arg = PyInt(Ones(128))
    /\ call.op = "decode" /\ call.arg = PyStr(prev.res.val)
    /\ call.res = Ok(<<Ones(48), Ones(80)>>)

\* C4: for any two integers in [0, 2^128), v1 < v2 exactly when encode(v1)
\* is smaller than encode(v2) in character-code order, and v1 = v2 exactly
\* when the two strings are equal.
C4_OrderPreserved ==
    (/\ prev.op = "encode" /\ Representable(prev.arg)
     /\ call.op = "encode" /\ Representable(call.arg)) =>
        /\ prev.res.ok /\ call.res.ok
        /\ NatLess(prev.arg.mag, call.arg.mag) <=> StrLess(prev.res.val, call.res.val)
        /\ (prev.arg.mag = call.arg.mag) <=> (prev.res.val = call.res.val)

\* Two integers of different bit lengths, 2^47 - 1 < 2^127, were encoded.
C4_Witness ==
    /\ prev.op = "encode" /\ prev.arg = PyInt(Ones(47))
    /\ call.op = "encode" /\ call.arg = PyInt(Shl(<<1>>, 127))
    /\ StrLess(prev.res.val, call.res.val)

\* C5: encode returns 26 alphabet characters for every integer in
\* [0, 2^128), raises the range error (ValueError) for every integer below
\* 0 or at least 2^128, and raises TypeError for a non-integer.
C5_EncodeRange ==
    call.op = "encode" =>
        /\ Representable(call.arg) =>
                /\ call.res.ok
                /\ Len(call.res.val) = 26
                /\ \A k \in 1..Len(call.res.val) : call.res.val[k] \in Alphabet
        /\ (call.arg.type = "int" /\ ~Representable(call.arg)) =>
                call.res = Raise("ValueError")
        /\ call.arg.type # "int" => call.res = Raise("TypeError")

\* encode(2^128) raised.
C5_Witness ==
    /\ call.op = "encode" /\ call.arg = PyInt(Shl(<<1>>, 128))
    /\ ~call.res.ok

C8_EncodeTimestamp ==
    (call.op = "encode_timestamp" /\ call.arg.type = "int") =>
        LET t == call.arg
        IN  /\ (~t.neg /\ Len(t.mag) <= 48) =>
                /\ call.res.ok
                /\ Len(call.res.val) = 10
                /\ \A k \in 1..Len(call.res.val) : call.res.val[k] \in Alphabet
                /\ Strip(CharBits(call.res.val)) = t.mag
            /\ t.mag = Ones(48) /\ ~t.neg =>
                call.res.val = <<"7">> \o Repeat("Z", 9)
            /\ (t.neg \/ Len(t.mag) > 48) => call.res = Raise("ValueError")

\* encode_timestamp(2^48 - 1) returned '7ZZZZZZZZZ'.
C8_Witness ==
    /\ call.op = "encode_timestamp" /\ call.arg = PyInt(Ones(48))
    /\ call.res = Ok(<<"7">> \o Repeat("Z", 9))

-----------------------------------------------------------------------------
(* Properties of the Monotonic generator                                   *)

\* Two clock readings in the same millisecond.
SameMs(a, b) == a.s = b.s /\ (a.us \div 1000) = (b.us \div 1000)

\* a <= b on clock readings.
TimeLeq(a, b) == a.s < b.s \/ (a.s = b.s /\ a.us <= b.us)

\* The string of timestamp ts (a number of milliseconds) and randomness rnd.
UlidOf(ts, rnd) == encode(PyInt(Strip(FormatBin(ts, 48) \o FormatBin(rnd, 80)))).val

\* C1: with calls made one after the other and a clock that never goes
\* backwards, the strings emitted by one Monotonic generator are in
\* non-decreasing order, and two calls in the same millisecond emit
\* strictly increasing strings.
C1_Monotonic ==
    \A i, j \in 1..Len(emitted) :
        i < j =>
            /\ ~StrLess(emitted[j].val, emitted[i].val)
            /\ SameMs(emitted[i].at, emitted[j].at) =>
                    StrLess(emitted[i].val, emitted[j].val)

\* Two calls in one millisecond, then one in a later millisecond, emitted.
C1_Witness ==
    /\ Len(emitted) = 3
    /\ SameMs(emitted[1].at, emitted[2].at)
    /\ ~SameMs(emitted[2].at, emitted[3].at)
    /\ emitted[1].at # Epoch
    /\ StrLess(emitted[1].val, emitted[2].val)
    /\ StrLess(emitted[2].val, emitted[3].val)

\* C3: a call that takes the same-millisecond branch with last_randomness
\* set emits the unchanged last_timestamp with last_randomness + 1 and
\* stores that value; with last_randomness = 2^80 - 1 it raises the overflow
\* error (a ValueError), emits nothing and leaves the state unchanged.
C3_SameMillisecond ==
    [][(/\ last'.n = last.n + 1
        /\ last'.path = "same"
        /\ prev_rand_bits # None) =>
            IF Strip(prev_rand_bits) = Ones(80)
            THEN /\ ~last'.ok
                 /\ last'.err = "ValueError"
                 /\ emitted' = emitted
                 /\ prev_utc_time' = prev_utc_time
                 /\ prev_rand_bits' = prev_rand_bits
            ELSE /\ last'.ok
                 /\ last'.val = UlidOf(timestamp_ms(prev_utc_time),
                                       Inc(Strip(prev_rand_bits)))
                 /\ emitted' = Append(emitted, [val |-> last'.val, at |-> now'])
                 /\ prev_utc_time' = prev_utc_time
                 /\ Strip(prev_rand_bits') = Inc(Strip(prev_rand_bits))]_vars

\* A call in the millisecond of the last one found last_randomness at
\* 2^80 - 1 and raised.
C3_Witness ==
    /\ last.path = "same"
    /\ last.rand = Ones(80)
    /\ SameMs(last.time, last.curr)
    /\ last.err = "ValueError"

\* What the new-millisecond transition does: the clock reading becomes
\* last_timestamp, the randomness is stored, and the string carries the
\* clock reading as its timestamp.
NewMillisecondTaken ==
    /\ last.path = "new"
    /\ last.ok
    /\ prev_utc_time = last.curr
    /\ SubSeq(last.val, 1, 10) = encode_timestamp(PyInt(timestamp_ms(last.curr))).val
    /\ last.val = UlidOf(timestamp_ms(last.curr), Strip(prev_rand_bits))

\* C9: a call whose clock reading differs from last_timestamp by 1 ms or
\* more, by any amount, takes the new-millisecond transition; so does the
\* first call on a new generator unless the clock reads exactly the epoch.
C9_NewMillisecond ==
    last.n > 0 =>
        /\ TimeLeq(TimeAdd(last.time, [s |-> 0, us |-> 1000]), last.curr) =>
                NewMillisecondTaken
        /\ (last.n = 1 /\ last.curr # Epoch) => NewMillisecondTaken

-----------------------------------------------------------------------------
(* Properties of the strings generated                                     *)

\* C7: every string returned by generate(), of the plain generator and of
\* the Monotonic generator, from the wall clock or from any seed, has
\* exactly 26 characters, all of the alphabet.
C7_GeneratedShape ==
    \A k \in 1..Len(emitted) :
        /\ Len(emitted[k].val) = 26
        /\ \A i \in 1..Len(emitted[k].val) : emitted[k].val[i] \in Alphabet

\* C10: Monotonic.generate takes no lock.  When the callers serialize their
\* calls, no two emitted strings are equal and calls in the same millisecond
\* emit strictly increasing strings; without that, two calls in the same
\* millisecond can read the same last_randomness and emit the same string.
C10_SerializedDistinct ==
    serialized =>
        \A i, j \in 1..Len(emitted) :
            i < j =>
                /\ emitted[i].val # emitted[j].val
                /\ SameMs(emitted[i].at, emitted[j].at) =>
                        StrLess(emitted[i].val, emitted[j].val)

\* Without a lock: two calls in one millisecond, both past the read of
\* last_randomness before either stored its value, emitted the same string.
C10_Witness ==
    /\ ~serialized
    /\ \E i, j \in 1..Len(emitted) :
            /\ i < j
            /\ SameMs(emitted[i].at, emitted[j].at)
            /\ emitted[i].path = "same" /\ emitted[j].path = "same"
            /\ emitted[i].read # None
            /\ emitted[i].read = emitted[j].read
            /\ emitted[i].val = emitted[j].val

-----------------------------------------------------------------------------
(* Properties of decode on strings of any length up to 26                  *)

\* The bits of the first n of the 5-bit positions of the characters of s,
\* and the bits after them, each read as a number (no bits read as 0).
LeadingBits(s, n) == Strip(SubSeq(CharBits(s), 1, Min(n, 5 * Len(s))))

TrailingBits(s, n) == Strip(SubSeq(CharBits(s), n + 1, 5 * Len(s)))

\* 392928161897179156999966, the randomness of the docstring of decode
DocRandomness ==
    FromDecimal(<<3, 9, 2, 9, 2, 8, 1, 6, 1, 8, 9, 7, 1, 7, 9, 1, 5, 6,
                  9, 9, 9, 9, 6, 6>>)

\* C11: decode accepts every string of alphabet characters of length at
\* most 26, shorter ones such as the 10 characters encode_timestamp returns
\* included, whose leading timestamp bits are at most MAX_EPOCH_TIME, and
\* returns (the leading timestamp bits, the remaining bits) as numbers;
\* decode('01BX5ZZKBKACTAV9WEVGEMMVRY') = (1508808576371,
\* 392928161897179156999966).
C11_DecodeAccepts ==
    (call.op = "decode" /\ call.arg.type = "str") =>
        LET s == call.arg.chars
        IN  /\ (/\ Len(s) <= 26
                /\ \A k \in 1..Len(s) : s[k] \in Alphabet
                /\ ~NatLess(Ones(48), LeadingBits(s, _time))) =>
                    call.res = Ok(<<LeadingBits(s, _time), TrailingBits(s, _time)>>)
            /\ s = DocUlid =>
                    call.res = Ok(<<FromDecimal(<<1, 5, 0, 8, 8, 0, 8, 5, 7, 6, 3, 7, 1>>),
                                    DocRandomness>>)

\* The same for the strings longer than the timestamp field, 11 to 26
\* characters, which is what the code does.
C11_DecodeAcceptsLong ==
    (call.op = "decode" /\ call.arg.type = "str") =>
        LET s == call.arg.chars
        IN  /\ (/\ Len(s) > 10 /\ Len(s) <= 26
                /\ \A k \in 1..Len(s) : s[k] \in Alphabet
                /\ ~NatLess(Ones(48), LeadingBits(s, _time))) =>
                    call.res = Ok(<<LeadingBits(s, _time), TrailingBits(s, _time)>>)
            /\ s = DocUlid =>
                    call.res = Ok(<<FromDecimal(<<1, 5, 0, 8, 8, 0, 8, 5, 7, 6, 3, 7, 1>>),
                                    DocRandomness>>)

-----------------------------------------------------------------------------
(* Properties of seeded generators                                         *)

\* The timestamp bits a seed stands for: seed_time * 1000, zero filled.
SeedTimestampBits == FormatBin(MulAdd(seed_time, 1000, 0), _time)

\* Every emitted string starts with the timestamp bits of the seed.
SeedIsTimestamp ==
    \A k \in 1..Len(emitted) :
        SubSeq(CharBits(emitted[k].val), 1, Len(SeedTimestampBits)) = SeedTimestampBits

\* Every call on a Monotonic generator after the first takes the
\* same-millisecond branch and emits the last randomness plus 1.
SeedForcesSameMillisecond ==
    (last.path \in {"same", "new"} /\ last.n > 1) =>
        /\ last.path = "same"
        /\ last.ok =>
            SubSeq(CharBits(last.val), Len(CharBits(last.val)) - 79, Len(CharBits(last.val)))
                = FormatBin(Inc(Strip(last.rand)), 80)

\* C12: a generator constructed with a seed reads the seed in place of the
\* clock on every generate() call, so the timestamp field of every emitted
\* string is that of the seed whatever the clock reads; a seeded Monotonic
\* generator takes the same-millisecond branch on every call after the
\* first, with the same timestamp and the randomness incremented by 1.
C12_SeedDeterminesTimestamp ==
    seed_time # None => (SeedIsTimestamp /\ SeedForcesSameMillisecond)

====
